---- MODULE Spec2Model ----
(***************************************************************************)
(* Chronic Absenteeism Predictor: the risk scorer (on_calculate_risk), the *)
(* risk explanation, the recommendation engine (src/app.py) and the        *)
(* result filter and risk highlighting of the batch page                   *)
(* (src/utils/batch_prediction.py).                                        *)
(*                                                                         *)
(* Python floats are modelled as exact rationals [n |-> .., d |-> ..] in   *)
(* lowest terms with d > 0.  Python's None is the record None; a dict is a *)
(* function whose DOMAIN is the set of keys it holds.                      *)
(***************************************************************************)
EXTENDS Integers, Sequences, FiniteSets, TLC

VARIABLES
    \* ---- st.session_state of the individual student check (src/app.py)
    student_select,        \* session key "student_select": None or an id
    form,                  \* the widget keys present_<id>, absent_<id>, ... that are set
    current_prediction,    \* session key current_prediction: None or a risk value
    current_student_data,  \* session key current_student_data: None or the inputs dict
    calc_inputs,           \* the local `inputs` of the latest on_calculate_risk call
    \* ---- arguments and results of the pure functions of src/app.py
    risk_value,            \* the risk_value argument
    student_data,          \* the student_data argument (a dict, fields may be missing)
    interventions,         \* result of get_recommendation_with_reasons, None before the call
    explanation,           \* result of get_risk_explanation, None before the call
    style,                 \* result of highlight_risk, None before the call
    highlighted,           \* the val argument of the latest highlight_risk call
    \* ---- the Prediction Results tab (src/utils/batch_prediction.py)
    prediction_results,    \* session key prediction_results: the result rows
    selected_school,       \* selectbox results_school_filter
    selected_risk,         \* multiselect results_risk_filter
    filtered_results,      \* filtered_results of the latest script run
    summary,               \* summary_df of the latest script run, None without results
    export_cols,           \* multiselect export_columns, in the order selected
    export_risk,           \* multiselect export_risk
    export_button,         \* the value of the Export CSV button in the latest script run
    download,              \* the CSV the latest script run offers for download, or None
    \* ---- the rest of st.session_state (src/app.py, src/utils/batch_prediction.py)
    model,                 \* session key model: None or a trained model
    historical_data,       \* session key historical_data: the training rows
    current_year_data,     \* session key current_year_data: the uploaded rows
    training_report,       \* session key training_report: Unset, None or a report
    prediction_complete    \* session key prediction_complete: Unset or TRUE

vars == <<student_select, form, current_prediction, current_student_data, calc_inputs,
          risk_value, student_data, interventions, explanation, style, highlighted,
          prediction_results, selected_school, selected_risk, filtered_results,
          summary, export_cols, export_risk, export_button, download,
          model, historical_data, current_year_data, training_report, prediction_complete>>

calcVars == <<student_select, form, current_prediction, current_student_data, calc_inputs>>
funcVars == <<risk_value, student_data, interventions, explanation, style, highlighted>>
batchVars == <<prediction_results, selected_school, selected_risk, filtered_results>>
exportVars == <<summary, export_cols, export_risk, export_button, download>>
sessionVars == <<model, historical_data, current_year_data, training_report, prediction_complete>>

None == [none |-> TRUE]
\* a session key that is not set
Unset == [unset |-> TRUE]
Some(v) == [some |-> v]

\* dict.get(key, default)
Get(d, key, default) == IF key \in DOMAIN d THEN d[key] ELSE default

\* dict.get(key): the value, or None when the key is missing
GetOpt(d, key) == IF key \in DOMAIN d THEN Some(d[key]) ELSE None

(***************************************************************************)
(* Exact rational arithmetic standing for Python float arithmetic.         *)
(***************************************************************************)
Abs(x) == IF x < 0 THEN -x ELSE x

RECURSIVE Gcd(_, _)
Gcd(a, b) == IF b = 0 THEN a ELSE Gcd(b, a % b)

\* n/d in lowest terms, d > 0 (the caller guarantees d # 0)
Rat(n, d) ==
    LET g == Gcd(Abs(n), Abs(d))
        s == IF d < 0 THEN -1 ELSE 1
    IN  [n |-> (s * n) \div g, d |-> (s * d) \div g]

RatInt(k) == [n |-> k, d |-> 1]
RatAdd(x, y) == Rat(x.n * y.d + y.n * x.d, x.d * y.d)
RatSub(x, y) == Rat(x.n * y.d - y.n * x.d, x.d * y.d)
RatMul(x, y) == Rat(x.n * y.n, x.d * y.d)
RatDiv(x, y) == Rat(x.n * y.d, x.d * y.n)
RatLt(x, y) == x.n * y.d < y.n * x.d
RatLe(x, y) == x.n * y.d <= y.n * x.d
RatGe(x, y) == RatLe(y, x)
RatGt(x, y) == RatLt(y, x)

(***************************************************************************)
(* The individual student check: on_calculate_risk (src/app.py).           *)
(***************************************************************************)
MaxSmallDays == 1

NoStudent == ""
StudentIds == {"S1"}

\* values the form widgets of the selected student can be set to
PresentVals == (0..MaxSmallDays) \cup {100}
AbsentVals == (0..MaxSmallDays) \cup {60}
AcademicVals == {0, 50, 100}
MealVals == {"Paid"}
WidgetKeys == {"present", "absent", "academic", "meal"}
WidgetVals(key) ==
    CASE key = "present" -> PresentVals
      [] key = "absent" -> AbsentVals
      [] key = "academic" -> AcademicVals
      [] key = "meal" -> MealVals

\* the `inputs` dict on_calculate_risk builds from the session keys; the
\* grade widget is left unset, so Grade is its default
build_inputs(f) ==
    [Present_Days |-> Get(f, "present", 150),
     Absent_Days |-> Get(f, "absent", 10),
     Academic_Performance |-> Get(f, "academic", 70),
     Grade |-> 9,
     Meal_Code |-> Get(f, "meal", "Free")]

\* inputs['Present_Days'] / (inputs['Present_Days'] + inputs['Absent_Days'])
\* raises ZeroDivisionError when the divisor is 0
attendance_raises(inputs) == inputs.Present_Days + inputs.Absent_Days = 0

\* mutant: the share of absent days taken for the attendance rate
attendance_rate_absent(inputs) ==
    RatDiv(RatInt(inputs.Absent_Days), RatInt(inputs.Present_Days + inputs.Absent_Days))

attendance_rate(inputs) ==
    RatDiv(RatInt(inputs.Present_Days), RatInt(inputs.Present_Days + inputs.Absent_Days))

\* mutant: the percentage not scaled to [0,1]
academic_factor_unscaled(inputs) ==
    RatSub(RatInt(1), RatInt(inputs.Academic_Performance))

academic_factor(inputs) ==
    RatSub(RatInt(1), RatDiv(RatInt(inputs.Academic_Performance), RatInt(100)))

\* mutant: the two weights swapped
risk_score_swapped(inputs) ==
    RatAdd(RatMul(Rat(4, 10), RatSub(RatInt(1), attendance_rate(inputs))),
           RatMul(Rat(6, 10), academic_factor(inputs)))

risk_score(inputs) ==
    RatAdd(RatMul(Rat(6, 10), RatSub(RatInt(1), attendance_rate(inputs))),
           RatMul(Rat(4, 10), academic_factor(inputs)))

(***************************************************************************)
(* get_risk_explanation (src/app.py).  The result is [lines |-> ...], or   *)
(* [raised |-> "ZeroDivisionError"] when the attendance division raises.   *)
(***************************************************************************)
\* f"{x:.1f}": x >= 0 rounded to one decimal (ties to even), in tenths
Format1(x) ==
    LET q == (x.n * 10) \div x.d
        r == (x.n * 10) % x.d
    IN  IF 2 * r > x.d \/ (2 * r = x.d /\ q % 2 = 1) THEN q + 1 ELSE q

\* the first line of the explanation: the risk level
risk_level_label(rv) ==
    IF RatGe(rv, Rat(7, 10)) THEN "Critical Risk Level"
    ELSE IF RatGe(rv, Rat(4, 10)) THEN "Elevated Risk Level"
    ELSE "Low Risk Level"

explanation_divisor(sd) == Get(sd, "Present_Days", 0) + Get(sd, "Absent_Days", 1)

attendance_pct(sd) ==
    RatMul(RatDiv(RatInt(Get(sd, "Present_Days", 0)), RatInt(explanation_divisor(sd))),
           RatInt(100))

get_risk_explanation(rv, sd) ==
    IF explanation_divisor(sd) = 0 THEN [raised |-> "ZeroDivisionError"]
    ELSE [lines |->
            <<[text |-> risk_level_label(rv), arg |-> None]>>
            \o (IF RatLt(attendance_pct(sd), RatInt(85))
                THEN <<[text |-> "Low attendance rate", arg |-> Some(Format1(attendance_pct(sd)))]>>
                ELSE <<>>)
            \o (IF Get(sd, "Academic_Performance", 100) < 65
                THEN <<[text |-> "Below-average academics",
                        arg |-> Some(Get(sd, "Academic_Performance", 100))]>>
                ELSE <<>>)
            \o (IF Get(sd, "Meal_Code", "") \in {"Free", "Reduced"}
                THEN <<[text |-> "Eligible for meal assistance", arg |-> None]>>
                ELSE <<>>)]

(***************************************************************************)
(* get_recommendation_with_reasons (src/app.py).  An intervention is the   *)
(* pair <<intervention text, reason>>; a reason is its text and the value  *)
(* the f-string formats into it.                                           *)
(***************************************************************************)
Counselor == "Immediate 1-on-1 meeting with school counselor"
FamilyConference == "Parent/guardian conference within 48 hours"
HealthCheckup == "Schedule health checkup"
Tutor == "Assign academic support tutor"
WeeklyCheckins == "Weekly check-ins with homeroom teacher"
AttendanceReport == "Send personalized attendance report"
Nutrition == "Connect with nutrition programs"
PositiveReinforcement == "Positive reinforcement"
AttendanceGoal == "Set attendance improvement goal"

Reason(text, arg) == [text |-> text, arg |-> arg]

\* mutant: the health checkup from 15 absent days on
high_interventions_inclusive(sd) ==
    << <<Counselor, Reason("Student is at very high risk of chronic absenteeism", None)>>,
       <<FamilyConference, Reason("Early family engagement is critical", None)>> >>
    \o (IF Get(sd, "Absent_Days", 0) >= 15
        THEN << <<HealthCheckup, Reason("High absence days", GetOpt(sd, "Absent_Days"))>> >>
        ELSE <<>>)
    \o (IF Get(sd, "Academic_Performance", 70) < 60
        THEN << <<Tutor, Reason("Low performance", GetOpt(sd, "Academic_Performance"))>> >>
        ELSE <<>>)

high_interventions(sd) ==
    << <<Counselor, Reason("Student is at very high risk of chronic absenteeism", None)>>,
       <<FamilyConference, Reason("Early family engagement is critical", None)>> >>
    \o (IF Get(sd, "Absent_Days", 0) > 15
        THEN << <<HealthCheckup, Reason("High absence days", GetOpt(sd, "Absent_Days"))>> >>
        ELSE <<>>)
    \o (IF Get(sd, "Academic_Performance", 70) < 60
        THEN << <<Tutor, Reason("Low performance", GetOpt(sd, "Academic_Performance"))>> >>
        ELSE <<>>)

\* mutant: nutrition support for the Free meal code only
medium_interventions_free_only(sd) ==
    << <<WeeklyCheckins, Reason("Regular monitoring prevents escalation", None)>>,
       <<AttendanceReport, Reason("Family awareness improves outcomes", None)>> >>
    \o (IF Get(sd, "Meal_Code", "") = "Free"
        THEN << <<Nutrition, Reason("Address potential food insecurity", None)>> >>
        ELSE <<>>)

medium_interventions(sd) ==
    << <<WeeklyCheckins, Reason("Regular monitoring prevents escalation", None)>>,
       <<AttendanceReport, Reason("Family awareness improves outcomes", None)>> >>
    \o (IF Get(sd, "Meal_Code", "") \in {"Free", "Reduced"}
        THEN << <<Nutrition, Reason("Address potential food insecurity", None)>> >>
        ELSE <<>>)

\* mutant: the attendance goal up to 160 present days
low_interventions_inclusive(sd) ==
    << <<PositiveReinforcement, Reason("Maintaining good patterns prevents issues", None)>> >>
    \o (IF Get(sd, "Present_Days", 0) <= 160
        THEN << <<AttendanceGoal, Reason("Current attendance", GetOpt(sd, "Present_Days"))>> >>
        ELSE <<>>)

low_interventions(sd) ==
    << <<PositiveReinforcement, Reason("Maintaining good patterns prevents issues", None)>> >>
    \o (IF Get(sd, "Present_Days", 0) < 160
        THEN << <<AttendanceGoal, Reason("Current attendance", GetOpt(sd, "Present_Days"))>> >>
        ELSE <<>>)

\* mutant: the High branch taken above 0.7 only, no branch left for 0.7 itself
get_recommendation_with_reasons_gap(rv, sd) ==
    IF RatGt(rv, Rat(7, 10)) THEN high_interventions(sd)
    ELSE IF RatGe(rv, Rat(3, 10)) /\ RatLt(rv, Rat(7, 10)) THEN medium_interventions(sd)
    ELSE IF RatLt(rv, Rat(3, 10)) THEN low_interventions(sd)
    ELSE <<>>

get_recommendation_with_reasons(rv, sd) ==
    IF RatGe(rv, Rat(7, 10)) THEN high_interventions(sd)
    ELSE IF RatGe(rv, Rat(3, 10)) THEN medium_interventions(sd)
    ELSE low_interventions(sd)

(***************************************************************************)
(* highlight_risk (src/utils/batch_prediction.py).  A cell value is NaN,   *)
(* a string or a number.                                                   *)
(***************************************************************************)
NaN == [kind |-> "nan"]
Str(s) == [kind |-> "str", s |-> s]
Num(r) == [kind |-> "num", r |-> r]

Red == "background-color: #FFCCCC"
Yellow == "background-color: #FFFFCC"
Green == "background-color: #CCFFCC"
White == "background-color: #FFFFFF"

\* float(val) of a string: the number it spells, or None for a ValueError
ParseFloat(s) ==
    CASE s = "0.3" -> Some(Rat(3, 10))
      [] s = "0.7" -> Some(Rat(7, 10))
      [] OTHER -> None

\* the try block: the colour of a number
highlight_number(r) ==
    IF RatGe(r, Rat(7, 10)) THEN Red
    ELSE IF RatGe(r, Rat(3, 10)) THEN Yellow
    ELSE Green

highlight_risk(val) ==
    IF val.kind = "nan" THEN White
    ELSE IF val.kind = "str" /\ val.s = "High" THEN Red
    ELSE IF val.kind = "str" /\ val.s = "Medium" THEN Yellow
    ELSE IF val.kind = "str" /\ val.s = "Low" THEN Green
    ELSE IF val.kind = "str"
         THEN (IF ParseFloat(val.s) = None THEN White
               ELSE highlight_number(ParseFloat(val.s).some))
    ELSE highlight_number(val.r)

\* the user picks a student in the student_select widget
SelectStudent ==
    /\ \E id \in StudentIds \cup {NoStudent} :
          /\ id # student_select
          /\ student_select' = id
    /\ UNCHANGED <<form, current_prediction, current_student_data, calc_inputs>>
    /\ UNCHANGED <<funcVars, batchVars, exportVars, sessionVars>>

\* the user sets one form widget of the selected student
SetWidget ==
    /\ student_select # NoStudent
    /\ \E key \in WidgetKeys : \E v \in WidgetVals(key) :
          /\ (IF key \in DOMAIN form THEN form[key] # v ELSE TRUE)
          /\ form' = [k \in DOMAIN form \cup {key} |-> IF k = key THEN v ELSE form[k]]
    /\ UNCHANGED <<student_select, current_prediction, current_student_data, calc_inputs>>
    /\ UNCHANGED <<funcVars, batchVars, exportVars, sessionVars>>

\* on_calculate_risk: the whole callback, its except branch included
on_calculate_risk ==
    /\ \/ /\ student_select = NoStudent
          /\ UNCHANGED <<current_prediction, current_student_data, calc_inputs>>
       \/ /\ student_select # NoStudent
          /\ attendance_raises(build_inputs(form))
          /\ calc_inputs' = Some(build_inputs(form))
          /\ current_prediction' = None
          /\ UNCHANGED current_student_data
       \/ /\ student_select # NoStudent
          /\ ~attendance_raises(build_inputs(form))
          /\ calc_inputs' = Some(build_inputs(form))
          /\ current_prediction' = Some(risk_score(build_inputs(form)))
          /\ current_student_data' = Some(build_inputs(form))
    /\ UNCHANGED <<student_select, form>>
    /\ UNCHANGED <<funcVars, batchVars, exportVars, sessionVars>>

\* values of the variables a specification does not exercise
FuncIdle ==
    /\ risk_value = RatInt(0)
    /\ student_data = <<>>
    /\ interventions = None
    /\ explanation = None
    /\ style = None
    /\ highlighted = None

BatchIdle ==
    /\ prediction_results = <<>>
    /\ selected_school = "All"
    /\ selected_risk = {"High"}
    /\ filtered_results = <<>>

\* the export widgets at their defaults, nothing rendered yet
DefaultExportCols == <<"Student_ID", "School", "Grade", "Gender", "CA_Risk", "Risk_Category">>

ExportIdle ==
    /\ summary = None
    /\ export_cols = DefaultExportCols
    /\ export_risk = {"High", "Medium", "Low"}
    /\ export_button = FALSE
    /\ download = None

\* the session keys as initialize_session_state leaves a fresh session
SessionIdle ==
    /\ model = None
    /\ historical_data = <<>>
    /\ current_year_data = <<>>
    /\ training_report = None
    /\ prediction_complete = Unset

CalcIdle ==
    /\ student_select = NoStudent
    /\ form = <<>>
    /\ current_prediction = None
    /\ current_student_data = None
    /\ calc_inputs = None

\* initialize_session_state: no prediction, no student selected, no widget set
InitCalc == CalcIdle /\ FuncIdle /\ BatchIdle /\ ExportIdle /\ SessionIdle

NextCalc == SelectStudent \/ SetWidget \/ on_calculate_risk

SpecCalc == InitCalc /\ [][NextCalc]_vars

(***************************************************************************)
(* The pure functions applied to drawn arguments.                          *)
(***************************************************************************)
RiskScale == 10

\* risk values in [0,1]: the multiples of 1/RiskScale
RiskVals == {Rat(k, RiskScale) : k \in 0..RiskScale}

FieldKeys == {"Present_Days", "Absent_Days", "Academic_Performance", "Meal_Code"}
FieldVals(key) ==
    CASE key = "Present_Days" -> {0, 159, 160}
      [] key = "Absent_Days" -> {0, 15, 16}
      [] key = "Academic_Performance" -> {59, 60}
      [] key = "Meal_Code" -> {"Free", "Reduced", "Paid"}

\* a field of a record: missing, or one of its values
FieldOpts(key) == {None} \cup {Some(v) : v \in FieldVals(key)}

\* the dict holding the fields that are not missing
MakeRecord(p, a, ap, m) ==
    LET opt == [Present_Days |-> p, Absent_Days |-> a, Academic_Performance |-> ap, Meal_Code |-> m]
    IN  [k \in {key \in FieldKeys : opt[key] # None} |-> opt[k].some]

\* every student record over the field values, any of its fields missing
StudentRecords ==
    {MakeRecord(p, a, ap, m) :
        p \in FieldOpts("Present_Days"), a \in FieldOpts("Absent_Days"),
        ap \in FieldOpts("Academic_Performance"), m \in FieldOpts("Meal_Code")}

CellVals(rv) == {NaN, Num(rv), Str("High"), Str("Medium"), Str("Low"), Str("0.3"), Str("n/a")}

Recommend ==
    /\ interventions' = Some(get_recommendation_with_reasons(risk_value, student_data))
    /\ UNCHANGED <<risk_value, student_data, explanation, style, highlighted>>
    /\ UNCHANGED <<calcVars, batchVars, exportVars, sessionVars>>

Explain ==
    /\ explanation' = Some(get_risk_explanation(risk_value, student_data))
    /\ UNCHANGED <<risk_value, student_data, interventions, style, highlighted>>
    /\ UNCHANGED <<calcVars, batchVars, exportVars, sessionVars>>

Highlight ==
    /\ \E val \in CellVals(risk_value) :
          /\ highlighted' = Some(val)
          /\ style' = Some(highlight_risk(val))
    /\ UNCHANGED <<risk_value, student_data, interventions, explanation>>
    /\ UNCHANGED <<calcVars, batchVars, exportVars, sessionVars>>

InitRec ==
    /\ risk_value \in RiskVals
    /\ student_data \in StudentRecords
    /\ interventions = None
    /\ explanation = None
    /\ style = None
    /\ highlighted = None
    /\ CalcIdle
    /\ BatchIdle
    /\ ExportIdle
    /\ SessionIdle

NextRec == Recommend \/ Explain \/ Highlight

SpecRec == InitRec /\ [][NextRec]_vars

(***************************************************************************)
(* The Prediction Results tab of render_batch_prediction                   *)
(* (src/utils/batch_prediction.py): the filter widgets and apply_filters.  *)
(***************************************************************************)
MaxRows == 3

Schools == {"North", "South"}
RiskCategories == {"High", "Medium", "Low"}

\* 'School' in df.columns, for the stored (non-empty) results
HasSchoolColumn(df) == "School" \in DOMAIN df[1]

\* results['School'].unique().tolist() if 'School' in results.columns else []
available_schools(df) ==
    IF HasSchoolColumn(df) THEN {df[i].School : i \in 1..Len(df)} ELSE {}

\* mutant: the risk filter applied to df instead of the school-filtered frame
apply_filters_from_df(df, school, risk) ==
    LET SchoolTest(row) == row.School = school
        RiskTest(row) == row.Risk_Category \in risk
        by_school == IF school # "All" /\ HasSchoolColumn(df)
                     THEN SelectSeq(df, SchoolTest) ELSE df
    IN  IF risk # {} THEN SelectSeq(df, RiskTest) ELSE by_school

\* apply_filters(df); selected_school and selected_risk are the variables of
\* the enclosing script run it closes over
apply_filters(df, school, risk) ==
    LET SchoolTest(row) == row.School = school
        RiskTest(row) == row.Risk_Category \in risk
        by_school == IF school # "All" /\ HasSchoolColumn(df)
                     THEN SelectSeq(df, SchoolTest) ELSE df
    IN  IF risk # {} THEN SelectSeq(by_school, RiskTest) ELSE by_school

\* the CA_Risk batch_predict_ca gives a row of a category
CategoryRisk(cat) ==
    CASE cat = "High" -> Rat(8, 10)
      [] cat = "Medium" -> Rat(5, 10)
      [] cat = "Low" -> Rat(1, 10)

\* an uploaded row, and the result row batch_predict_ca makes of it
SourceRow(id, school) ==
    [Student_ID |-> id, School |-> school, Grade |-> 9, Gender |-> "Male"]

SourceRowNoSchool(id) == [Student_ID |-> id, Grade |-> 9, Gender |-> "Male"]

ResultRow(row, cat) ==
    [c \in DOMAIN row \cup {"CA_Risk", "Risk_Category"} |->
        IF c = "CA_Risk" THEN CategoryRisk(cat)
        ELSE IF c = "Risk_Category" THEN cat
        ELSE row[c]]

\* result tables of 1..MaxRows rows, with and without a School column; a
\* stored prediction_results is never empty (batch_prediction.py line 62)
ResultTables ==
    UNION {{[i \in 1..n |-> ResultRow(SourceRow(i, t[i][1]), t[i][2])] :
               t \in [1..n -> Schools \X RiskCategories]} : n \in 1..MaxRows}
    \cup
    UNION {{[i \in 1..n |-> ResultRow(SourceRowNoSchool(i), t[i])] :
               t \in [1..n -> RiskCategories]} : n \in 1..MaxRows}

\* the uploaded rows a result table was predicted from
SourceRows(df) ==
    [i \in 1..Len(df) |-> [c \in DOMAIN df[i] \ {"CA_Risk", "Risk_Category"} |-> df[i][c]]]

(***************************************************************************)
(* The risk summary (batch_prediction.py lines 81-92).                     *)
(***************************************************************************)
\* mutant: the rows of every other category counted
count_category_others(results, cat) ==
    LET Test(row) == row.Risk_Category # cat IN Len(SelectSeq(results, Test))

\* len(results[results['Risk_Category'] == cat])
count_category(results, cat) ==
    LET Test(row) == row.Risk_Category = cat IN Len(SelectSeq(results, Test))

\* mutant: the percentage rounded to a whole number
percentage_whole(count, total) ==
    LET x == Rat(count * 100, total)
        q == x.n \div x.d
        r == x.n % x.d
    IN  RatInt(IF 2 * r > x.d \/ (2 * r = x.d /\ q % 2 = 1) THEN q + 1 ELSE q)

\* (count / total_students * 100).round(1): ties to even
percentage(count, total) ==
    Rat(Format1(RatMul(RatDiv(RatInt(count), RatInt(total)), RatInt(100))), 10)

\* summary_df: one row per category, in the order High, Medium, Low
risk_summary(results) ==
    LET row(cat) == [category |-> cat,
                     count |-> count_category(results, cat),
                     percentage |-> percentage(count_category(results, cat), Len(results))]
    IN  <<row("High"), row("Medium"), row("Low")>>

(***************************************************************************)
(* The export section (batch_prediction.py lines 186-221).                 *)
(***************************************************************************)
\* the text to_csv writes for a cell
FloatText(r) ==
    LET t == (r.n * 10) \div r.d IN ToString(t \div 10) \o "." \o ToString(t % 10)

CellText(col, v) ==
    IF col \in {"Student_ID", "Grade"} THEN ToString(v)
    ELSE IF col = "CA_Risk" THEN FloatText(v)
    ELSE v

\* mutant: an empty selection of risk levels keeps every row
export_rows_all_when_empty(results, risk) ==
    LET Test(row) == row.Risk_Category \in risk
    IN  IF risk # {} THEN SelectSeq(results, Test) ELSE results

\* results[results['Risk_Category'].isin(export_risk)]
export_rows(results, risk) ==
    LET Test(row) == row.Risk_Category \in risk IN SelectSeq(results, Test)

\* export_data[export_cols].to_csv(index=False): the header and a line per row
to_csv(rows, cols) ==
    [header |-> cols,
     lines |-> [i \in 1..Len(rows) |->
                  [j \in 1..Len(cols) |-> CellText(cols[j], rows[i][cols[j]])]]]

\* mutant: the column list not tested for being empty
export_download_unchecked(button, results, cols, risk) ==
    IF ~button THEN None
    ELSE Some(to_csv(export_rows(results, risk), cols))

\* what `if export_button:` offers for download: nothing without the button
\* or with no column (a warning), else the CSV
export_download(button, results, cols, risk) ==
    IF ~button THEN None
    ELSE IF cols = <<>> THEN None
    ELSE Some(to_csv(export_rows(results, risk), cols))

\* the selections the export widgets are set to
ExportColChoices == {<<>>, DefaultExportCols, <<"Risk_Category", "Student_ID">>}
ExportRiskChoices == {{}, {"High"}, {"Medium", "Low"}, RiskCategories}

\* a script run that does not reach the Prediction Results tab, or finds no
\* stored results there (batch_prediction.py lines 22-25 and 75-76)
NothingRendered ==
    /\ filtered_results' = <<>>
    /\ summary' = None
    /\ export_button' = FALSE
    /\ download' = None

\* the Prediction Results tab rendered over the stored results `results`
\* (<<>>: none stored), with the widget values and the button value of the run
ResultsTabRender(results, school, risk, cols, xrisk, button) ==
    IF results = <<>> THEN NothingRendered
    ELSE /\ filtered_results' = apply_filters(results, school, risk)
         /\ summary' = Some(risk_summary(results))
         /\ export_button' = button
         /\ download' = export_download(button, results, cols, xrisk)

\* one script run of the tab over the results already stored
ResultsTabRun(school, risk, cols, xrisk, button) ==
    ResultsTabRender(prediction_results, school, risk, cols, xrisk, button)

\* the user picks a school in results_school_filter; the script reruns
SelectSchool ==
    /\ \E s \in {"All"} \cup available_schools(prediction_results) :
          /\ s # selected_school
          /\ selected_school' = s
          /\ ResultsTabRun(s, selected_risk, export_cols, export_risk, FALSE)
    /\ UNCHANGED <<prediction_results, selected_risk, export_cols, export_risk>>
    /\ UNCHANGED <<calcVars, funcVars, sessionVars>>

\* the user changes the results_risk_filter multiselect; the script reruns
SelectRisk ==
    /\ \E r \in SUBSET RiskCategories :
          /\ r # selected_risk
          /\ selected_risk' = r
          /\ ResultsTabRun(selected_school, r, export_cols, export_risk, FALSE)
    /\ UNCHANGED <<prediction_results, selected_school, export_cols, export_risk>>
    /\ UNCHANGED <<calcVars, funcVars, sessionVars>>

\* the Reset Filters button: its value is never read, the script only reruns
ResetFilters ==
    /\ ResultsTabRun(selected_school, selected_risk, export_cols, export_risk, FALSE)
    /\ UNCHANGED <<prediction_results, selected_school, selected_risk, export_cols, export_risk>>
    /\ UNCHANGED <<calcVars, funcVars, sessionVars>>

\* the user changes the export_columns multiselect; the script reruns
SelectExportColumns ==
    /\ \E cols \in ExportColChoices :
          /\ cols # export_cols
          /\ export_cols' = cols
          /\ ResultsTabRun(selected_school, selected_risk, cols, export_risk, FALSE)
    /\ UNCHANGED <<prediction_results, selected_school, selected_risk, export_risk>>
    /\ UNCHANGED <<calcVars, funcVars, sessionVars>>

\* the user changes the export_risk multiselect; the script reruns
SelectExportRisk ==
    /\ \E r \in ExportRiskChoices :
          /\ r # export_risk
          /\ export_risk' = r
          /\ ResultsTabRun(selected_school, selected_risk, export_cols, r, FALSE)
    /\ UNCHANGED <<prediction_results, selected_school, selected_risk, export_cols>>
    /\ UNCHANGED <<calcVars, funcVars, sessionVars>>

\* the user presses Export CSV; the script reruns with export_button true
ExportCsv ==
    /\ ResultsTabRun(selected_school, selected_risk, export_cols, export_risk, TRUE)
    /\ UNCHANGED <<prediction_results, selected_school, selected_risk, export_cols, export_risk>>
    /\ UNCHANGED <<calcVars, funcVars, sessionVars>>

\* the rows of an uploaded training file
TrainingData == <<SourceRowNoSchool(0)>>

\* the session keys once a model is trained and the rows of df are predicted
SessionAfterPrediction(df) ==
    /\ model = Some("trained")
    /\ historical_data = TrainingData
    /\ current_year_data = SourceRows(df)
    /\ training_report = Some("report")
    /\ prediction_complete = Some(TRUE)

\* the first run of the tab over stored results: the widgets at their defaults
ResultsTabFirstRun ==
    /\ selected_school = "All"
    /\ selected_risk = {"High"}
    /\ filtered_results = apply_filters(prediction_results, selected_school, selected_risk)
    /\ summary = Some(risk_summary(prediction_results))
    /\ export_cols = DefaultExportCols
    /\ export_risk = {"High", "Medium", "Low"}
    /\ export_button = FALSE
    /\ download = None

InitFilter ==
    /\ prediction_results \in ResultTables
    /\ ResultsTabFirstRun
    /\ SessionAfterPrediction(prediction_results)
    /\ CalcIdle
    /\ FuncIdle

NextFilter == SelectSchool \/ SelectRisk \/ ResetFilters

SpecFilter == InitFilter /\ [][NextFilter]_vars

(***************************************************************************)
(* The filter and the export together, over the result tables that carry   *)
(* every default export column.                                            *)
(***************************************************************************)
MaxExportRows == 3

\* result tables of 1..MaxExportRows rows of any categories, the rows
\* alternating between the two schools
ExportTables ==
    UNION {{[i \in 1..n |->
                ResultRow(SourceRow(i, IF i % 2 = 1 THEN "North" ELSE "South"), t[i])] :
               t \in [1..n -> RiskCategories]} : n \in 1..MaxExportRows}

InitExport ==
    /\ prediction_results \in ExportTables
    /\ ResultsTabFirstRun
    /\ SessionAfterPrediction(prediction_results)
    /\ CalcIdle
    /\ FuncIdle

NextExport ==
    \/ SelectSchool \/ SelectRisk \/ ResetFilters
    \/ SelectExportColumns \/ SelectExportRisk \/ ExportCsv

SpecExport == InitExport /\ [][NextExport]_vars

(***************************************************************************)
(* The session: training, upload, Generate Predictions (batch_prediction.py *)
(* lines 21-70) and RESET SYSTEM (app.py lines 195-205).  A stored          *)
(* prediction_results is never empty, so <<>> stands for the key not set.   *)
(***************************************************************************)
MaxUploadRows == 2

\* the files upload_data_file(file_type="current") can store: 1..MaxUploadRows
\* rows, alternating between the two schools or without a School column
UploadTables ==
    {[i \in 1..n |-> SourceRow(i, IF i % 2 = 1 THEN "North" ELSE "South")] :
        n \in 1..MaxUploadRows}
    \cup {[i \in 1..n |-> SourceRowNoSchool(i)] : n \in 1..MaxUploadRows}

\* what batch_predict_ca(data, model) can do: return a frame with a row per
\* uploaded row, return None or an empty frame, or raise
batch_predict_ca(data) ==
    {[kind |-> "frame", df |-> [i \in 1..Len(data) |-> ResultRow(data[i], t[i])]] :
        t \in [1..Len(data) -> RiskCategories]}
    \cup {[kind |-> "none"], [kind |-> "raise"]}

\* initialize_session_state at the start of every script run: a missing
\* training_report becomes None
init_training_report(tr) == IF tr = Unset THEN None ELSE tr

\* the Training Data tab stores an uploaded training file
UploadTrainingData ==
    /\ historical_data' = TrainingData
    /\ training_report' = init_training_report(training_report)
    /\ NothingRendered
    /\ UNCHANGED <<model, current_year_data, prediction_complete>>
    /\ UNCHANGED <<prediction_results, selected_school, selected_risk, export_cols, export_risk>>
    /\ UNCHANGED <<calcVars, funcVars>>

\* the training tabs fit a model to the training data
TrainModel ==
    /\ historical_data # <<>>
    /\ model' = Some("trained")
    /\ training_report' = Some("report")
    /\ NothingRendered
    /\ UNCHANGED <<historical_data, current_year_data, prediction_complete>>
    /\ UNCHANGED <<prediction_results, selected_school, selected_risk, export_cols, export_risk>>
    /\ UNCHANGED <<calcVars, funcVars>>

\* render_batch_prediction, Data Upload tab: a current-year file is uploaded;
\* the tab is reached only with a trained model
UploadCurrentData ==
    /\ model # None
    /\ \E data \in UploadTables : current_year_data' = data
    /\ training_report' = init_training_report(training_report)
    /\ ResultsTabRun(selected_school, selected_risk, export_cols, export_risk, FALSE)
    /\ UNCHANGED <<model, historical_data, prediction_complete>>
    /\ UNCHANGED <<prediction_results, selected_school, selected_risk, export_cols, export_risk>>
    /\ UNCHANGED <<calcVars, funcVars>>

\* render_batch_prediction, the Generate Predictions button: shown only with
\* a trained model and uploaded rows
GeneratePredictions ==
    /\ model # None
    /\ current_year_data # <<>>
    /\ \E predictions \in batch_predict_ca(current_year_data) :
          \/ /\ predictions.kind = "frame"
             /\ prediction_results' = predictions.df
             /\ prediction_complete' = Some(TRUE)
             /\ ResultsTabRender(predictions.df, selected_school, selected_risk,
                                 export_cols, export_risk, FALSE)
          \/ /\ predictions.kind = "none"
             /\ UNCHANGED <<prediction_results, prediction_complete>>
             /\ ResultsTabRun(selected_school, selected_risk, export_cols, export_risk, FALSE)
          \/ /\ predictions.kind = "raise"
             /\ UNCHANGED <<prediction_results, prediction_complete>>
             /\ ResultsTabRun(selected_school, selected_risk, export_cols, export_risk, FALSE)
    /\ training_report' = init_training_report(training_report)
    /\ UNCHANGED <<model, historical_data, current_year_data>>
    /\ UNCHANGED <<selected_school, selected_risk, export_cols, export_risk>>
    /\ UNCHANGED <<calcVars, funcVars>>

\* mutant: the reset leaves the stored prediction results in place
ResetSystemKeepsResults ==
    /\ historical_data' = <<>>
    /\ current_year_data' = <<>>
    /\ model' = None
    /\ training_report' = Unset
    /\ NothingRendered
    /\ UNCHANGED <<prediction_results, prediction_complete>>
    /\ UNCHANGED <<selected_school, selected_risk, export_cols, export_risk>>
    /\ UNCHANGED <<calcVars, funcVars>>

\* render_sidebar, the RESET SYSTEM button; the page rendered after it finds
\* no model and no results
ResetSystem ==
    /\ historical_data' = <<>>
    /\ current_year_data' = <<>>
    /\ model' = None
    /\ training_report' = Unset
    /\ prediction_results' = <<>>
    /\ NothingRendered
    /\ UNCHANGED prediction_complete
    /\ UNCHANGED <<selected_school, selected_risk, export_cols, export_risk>>
    /\ UNCHANGED <<calcVars, funcVars>>

\* a fresh session after initialize_session_state
InitSession == SessionIdle /\ BatchIdle /\ ExportIdle /\ CalcIdle /\ FuncIdle

NextSession ==
    \/ UploadTrainingData \/ TrainModel \/ UploadCurrentData
    \/ GeneratePredictions \/ ResetSystem

SpecSession == InitSession /\ [][NextSession]_vars

(***************************************************************************)
(* Properties.                                                             *)
(***************************************************************************)
\* the tier of a risk value by the thresholds 0.3 and 0.7
TierOf(rv) ==
    IF RatGe(rv, Rat(7, 10)) THEN "High"
    ELSE IF RatGe(rv, Rat(3, 10)) THEN "Medium"
    ELSE "Low"

\* the tier each site placed the risk value in, read off its result
BranchTier(iv) ==
    CASE iv[1][1] = Counselor -> "High"
      [] iv[1][1] = WeeklyCheckins -> "Medium"
      [] iv[1][1] = PositiveReinforcement -> "Low"

LabelTier(ex) ==
    CASE ex.lines[1].text = "Critical Risk Level" -> "High"
      [] ex.lines[1].text = "Elevated Risk Level" -> "Medium"
      [] ex.lines[1].text = "Low Risk Level" -> "Low"

StyleTier(st) ==
    CASE st = Red -> "High"
      [] st = Yellow -> "Medium"
      [] st = Green -> "Low"

\* the intervention texts of a result, in order
Texts(iv) == [i \in 1..Len(iv) |-> iv[i][1]]

HasField(sd, key) == key \in DOMAIN sd

\* C1: once the recommendation engine, the risk explanation and the numeric
\* branch of highlight_risk have each handled the same risk value, all three
\* placed it in the tier the thresholds 0.3 and 0.7 give.
C1_SameTierEverywhere ==
    (/\ interventions # None
     /\ explanation # None
     /\ style # None
     /\ highlighted = Some(Num(risk_value))
     /\ "lines" \in DOMAIN explanation.some)
    => /\ BranchTier(interventions.some) = TierOf(risk_value)
       /\ StyleTier(style.some) = TierOf(risk_value)
       /\ LabelTier(explanation.some) = TierOf(risk_value)

\* C2: the stored current_prediction is None or a value in [0,1].
C2_PredictionInUnitInterval ==
    current_prediction # None
    => /\ RatGe(current_prediction.some, RatInt(0))
       /\ RatLe(current_prediction.some, RatInt(1))

\* C2 witness: a calculation stored the extreme risk 1 (no day present, no marks).
C2_Witness ==
    /\ calc_inputs # None
    /\ current_prediction = Some(RatInt(1))

\* C3: when the latest calculation ran on Present_Days = Absent_Days = 0, a
\* prediction is stored and equals 0.6 + 0.4 * (1 - Academic_Performance/100).
C3_ZeroDaysGivesRisk ==
    (/\ calc_inputs # None
     /\ calc_inputs.some.Present_Days = 0
     /\ calc_inputs.some.Absent_Days = 0)
    => /\ current_prediction # None
       /\ current_prediction.some =
            Rat(6000 + 40 * (100 - calc_inputs.some.Academic_Performance), 10000)

\* C4: the stored risk is at least the risk of the same inputs with any
\* smaller number of absent days (attendance defined).
C4_MonotoneInAbsences ==
    (calc_inputs # None /\ current_prediction # None)
    => \A a1 \in 0..calc_inputs.some.Absent_Days :
          (calc_inputs.some.Present_Days + a1 > 0)
          => RatLe(risk_score([calc_inputs.some EXCEPT !.Absent_Days = a1]),
                   current_prediction.some)

\* C4 witness: a risk stored for 60 absent days, strictly above that of 0 absent days.
C4_Witness ==
    /\ calc_inputs # None
    /\ current_prediction # None
    /\ calc_inputs.some.Present_Days = 100
    /\ calc_inputs.some.Absent_Days = 60
    /\ RatLt(risk_score([calc_inputs.some EXCEPT !.Absent_Days = 0]), current_prediction.some)

\* C5: every result of get_recommendation_with_reasons is non-empty and no
\* two of its entries carry the same intervention text.
C5_NonEmptyNoDuplicates ==
    interventions # None
    => /\ Len(interventions.some) >= 1
       /\ \A i, j \in 1..Len(interventions.some) :
             i # j => interventions.some[i][1] # interventions.some[j][1]

\* C5 witness: a record with every field missing got its recommendations.
C5_Witness ==
    /\ interventions # None
    /\ DOMAIN student_data = {}
    /\ Len(interventions.some) = 2

\* C6: for risk >= 0.7 the result is counselor meeting, family conference,
\* then health checkup iff Absent_Days > 15, then tutor iff
\* Academic_Performance < 60, and nothing else.
C6_HighInterventions ==
    (interventions # None /\ RatGe(risk_value, Rat(7, 10)))
    => Texts(interventions.some) =
         <<Counselor, FamilyConference>>
         \o (IF HasField(student_data, "Absent_Days") /\ student_data["Absent_Days"] > 15
             THEN <<HealthCheckup>> ELSE <<>>)
         \o (IF HasField(student_data, "Academic_Performance")
                 /\ student_data["Academic_Performance"] < 60
             THEN <<Tutor>> ELSE <<>>)

\* C6 witness: risk exactly 0.7 with 15 absent days and performance 60: the
\* two base actions alone.
C6_Witness ==
    /\ interventions # None
    /\ risk_value = Rat(7, 10)
    /\ HasField(student_data, "Absent_Days") /\ student_data["Absent_Days"] = 15
    /\ HasField(student_data, "Academic_Performance") /\ student_data["Academic_Performance"] = 60
    /\ Len(interventions.some) = 2

\* C7: for 0.3 <= risk < 0.7 the result is weekly check-ins, attendance
\* report, then nutrition support iff Meal_Code is Free or Reduced; for any
\* other risk the result holds no nutrition support.
C7_MediumInterventions ==
    interventions # None
    => IF RatGe(risk_value, Rat(3, 10)) /\ RatLt(risk_value, Rat(7, 10))
       THEN Texts(interventions.some) =
              <<WeeklyCheckins, AttendanceReport>>
              \o (IF HasField(student_data, "Meal_Code")
                      /\ student_data["Meal_Code"] \in {"Free", "Reduced"}
                  THEN <<Nutrition>> ELSE <<>>)
       ELSE \A i \in 1..Len(interventions.some) : interventions.some[i][1] # Nutrition

\* C7 witness: a Medium risk and a Reduced meal code: nutrition support is third.
C7_Witness ==
    /\ interventions # None
    /\ risk_value = Rat(3, 10)
    /\ HasField(student_data, "Meal_Code") /\ student_data["Meal_Code"] = "Reduced"
    /\ Len(interventions.some) = 3
    /\ interventions.some[3][1] = Nutrition

\* C8: for risk < 0.3 the result is positive reinforcement, then the
\* attendance goal iff Present_Days < 160 (a record without Present_Days
\* counts as 0 days present), and nothing else.
C8_LowInterventions ==
    (interventions # None /\ RatLt(risk_value, Rat(3, 10)))
    => Texts(interventions.some) =
         <<PositiveReinforcement>>
         \o (IF HasField(student_data, "Present_Days") => student_data["Present_Days"] < 160
             THEN <<AttendanceGoal>> ELSE <<>>)

\* C8 witness: a Low risk with exactly 160 present days: positive reinforcement alone.
C8_Witness ==
    /\ interventions # None
    /\ RatLt(risk_value, Rat(3, 10))
    /\ HasField(student_data, "Present_Days") /\ student_data["Present_Days"] = 160
    /\ Len(interventions.some) = 1

\* C9: a stored risk equals 0.6*(1 - P/(P+A)) + 0.4*(1 - AP/100), that is
\* (600*A + 4*(100-AP)*(P+A)) / (1000*(P+A)); (150, 10, 70) gives 0.1575 and
\* the Low branch, (100, 60, 50) gives 0.425 and the Medium branch with
\* weekly check-ins and the attendance report.
C9_HeuristicFormula ==
    (calc_inputs # None /\ current_prediction # None)
    => LET P == calc_inputs.some.Present_Days
           A == calc_inputs.some.Absent_Days
           AP == calc_inputs.some.Academic_Performance
           r == current_prediction.some
           rec == Texts(get_recommendation_with_reasons(r, current_student_data.some))
       IN  /\ current_student_data = calc_inputs
           /\ r.n * (1000 * (P + A)) = r.d * (600 * A + 4 * (100 - AP) * (P + A))
           /\ (P = 150 /\ A = 10 /\ AP = 70)
                 => /\ r = [n |-> 63, d |-> 400]
                    /\ rec[1] = PositiveReinforcement
           /\ (P = 100 /\ A = 60 /\ AP = 50)
                 => /\ r = [n |-> 17, d |-> 40]
                    /\ rec[1] = WeeklyCheckins
                    /\ rec[2] = AttendanceReport

\* C9 witness: the record (100, 60, 50) was scored 0.425.
C9_Witness ==
    /\ calc_inputs # None
    /\ calc_inputs.some.Present_Days = 100
    /\ calc_inputs.some.Absent_Days = 60
    /\ calc_inputs.some.Academic_Performance = 50
    /\ current_prediction = Some([n |-> 17, d |-> 40])

\* the positions of the stored rows a view keeps
KeptIndices(df, school, risk, always_by_risk) ==
    {i \in 1..Len(df) :
        /\ (IF school # "All" THEN df[i].School = school ELSE TRUE)
        /\ (IF always_by_risk \/ risk # {} THEN df[i].Risk_Category \in risk ELSE TRUE)}

\* view holds exactly the rows at the positions K, in their original order
IsViewOf(view, df, K) ==
    /\ Len(view) = Cardinality(K)
    /\ \A j \in 1..Len(view) :
          view[j] = df[CHOOSE i \in K : Cardinality({k \in K : k <= i}) = j]

\* C10 as stated: the view is exactly the stored rows, in order, whose
\* Risk_Category is in the selected set (the empty set included) and whose
\* School is the selected one when a school is selected.
C10_ViewBySchoolAndRisk ==
    IsViewOf(filtered_results, prediction_results,
             KeptIndices(prediction_results, selected_school, selected_risk, TRUE))

\* C10 amended: the same, except that an empty risk selection applies no
\* risk test at all.
C10_ViewEmptyRiskKeepsAll ==
    IsViewOf(filtered_results, prediction_results,
             KeptIndices(prediction_results, selected_school, selected_risk, FALSE))

\* C10 witness: a school and two categories are selected and the view keeps
\* some of the rows and drops others.
C10_Witness ==
    /\ selected_school # "All"
    /\ Cardinality(selected_risk) = 2
    /\ Len(filtered_results) >= 1
    /\ Len(filtered_results) + 2 <= Len(prediction_results)

\* the positions of the stored rows whose Risk_Category is in risk
PositionsIn(df, risk) == {i \in 1..Len(df) : df[i].Risk_Category \in risk}

\* the K-th smallest element of a set of positions
NthOf(K, j) == CHOOSE i \in K : Cardinality({k \in K : k <= i}) = j

\* row is the summary row of a category over the full frame df: its count is
\* the number of rows of df in the category, its percentage has one decimal
\* and lies within 0.05 of count / total * 100
IsSummaryRow(row, cat, df) ==
    LET count == Cardinality(PositionsIn(df, {cat}))
        exact == Rat(count * 100, Len(df))
    IN  /\ row.category = cat
        /\ row.count = count
        /\ 10 % row.percentage.d = 0
        /\ RatLe(RatSub(row.percentage, exact), Rat(1, 20))
        /\ RatLe(RatSub(exact, row.percentage), Rat(1, 20))

\* C11: no filter selection, filter reset or export request changes the
\* stored prediction_results, and the summary shown is always the counts and
\* percentages of the full stored result set, whatever the filter.
C11_FilterExportKeepResults ==
    /\ [][prediction_results' = prediction_results]_vars
    /\ [](/\ summary # None
          /\ Len(summary.some) = 3
          /\ IsSummaryRow(summary.some[1], "High", prediction_results)
          /\ IsSummaryRow(summary.some[2], "Medium", prediction_results)
          /\ IsSummaryRow(summary.some[3], "Low", prediction_results))

\* C11 witness: a CSV was exported while the filter hides some rows, and the
\* summary still counts every stored row.
C11_Witness ==
    /\ download # None
    /\ Len(filtered_results) < Len(prediction_results)
    /\ summary # None
    /\ summary.some[1].count + summary.some[2].count + summary.some[3].count
         = Len(prediction_results)
    /\ summary.some[2].count >= 1

\* C12: a script run with the Export CSV button pressed and no column
\* selected offers no download and leaves the stored results as they were.
C12_EmptyColumnsNoExport ==
    [][(export_button' /\ export_cols' = <<>>)
        => (download' = None /\ prediction_results' = prediction_results)]_vars

\* C12 witness: Export CSV was pressed with no column and only some risk
\* levels selected, and nothing is offered.
C12_Witness ==
    /\ export_button
    /\ export_cols = <<>>
    /\ export_risk = {"High"}
    /\ download = None

\* C13: an export with columns selected offers a CSV whose header is the
\* selected columns and whose lines are the rows of the full stored results
\* with Risk_Category in the selected risk levels, in their original order,
\* each holding the cells of the selected columns; none for no risk level.
C13_ExportProjection ==
    (export_button /\ export_cols # <<>>)
    => /\ download # None
       /\ download.some.header = export_cols
       /\ LET K == PositionsIn(prediction_results, export_risk)
              lines == download.some.lines
          IN  /\ Len(lines) = Cardinality(K)
              /\ (export_risk = {} => lines = <<>>)
              /\ \A j \in 1..Len(lines) :
                    /\ Len(lines[j]) = Len(export_cols)
                    /\ \A c \in 1..Len(export_cols) :
                          lines[j][c] = CellText(export_cols[c],
                                                 prediction_results[NthOf(K, j)][export_cols[c]])

\* C13 witness: the export holds rows the current filter hides, and not
\* every stored row.
C13_Witness ==
    /\ export_button
    /\ download # None
    /\ Len(download.some.lines) > Len(filtered_results)
    /\ Len(download.some.lines) < Len(prediction_results)
    /\ download.some.header = <<"Risk_Category", "Student_ID">>

\* C14: the three summary counts add up to the number of stored records and
\* the three percentages add up to 100 within 0.1.
C14_SummaryAddsUp ==
    summary # None
    => LET sm == summary.some
           pct == RatAdd(RatAdd(sm[1].percentage, sm[2].percentage), sm[3].percentage)
       IN  /\ sm[1].count + sm[2].count + sm[3].count = Len(prediction_results)
           /\ RatLe(RatSub(pct, RatInt(100)), Rat(1, 10))
           /\ RatLe(RatSub(RatInt(100), pct), Rat(1, 10))

\* C14 witness: one record of each category: three times 33.3, 99.9 in all.
C14_Witness ==
    /\ summary # None
    /\ Len(prediction_results) = 3
    /\ \A k \in 1..3 : summary.some[k].count = 1 /\ summary.some[k].percentage = Rat(333, 10)

\* C15: stored prediction results exist only while a trained model is
\* present; results are stored only in a step that starts with a model, and a
\* step that removes the model removes the results too.
C15_ResultsOnlyWithModel ==
    /\ [](prediction_results # <<>> => model # None)
    /\ [][(prediction_results' # prediction_results /\ prediction_results' # <<>>)
            => model # None]_vars
    /\ [][(model # None /\ model' = None) => prediction_results' = <<>>]_vars

\* C15 witness: Generate Predictions has stored a row for every uploaded row
\* while a trained model is present.
C15_Witness ==
    /\ prediction_results # <<>>
    /\ model # None
    /\ Len(prediction_results) = Len(current_year_data)
    /\ prediction_complete = Some(TRUE)

\* C16: whenever prediction_complete is True, non-empty prediction results
\* are stored.
C16_CompleteImpliesResults ==
    prediction_complete = Some(TRUE) => prediction_results # <<>>

====
